---------------------------- MODULE Spec2Model ----------------------------
(***************************************************************************)
(* State-machine model of src/server.js: the POST /orders/raw handler, the *)
(* withConn scoped-connection helper and calcTotals, together with the     *)
(* storage behaviour the handler relies on (read-committed transactions,   *)
(* the ORDERS primary key, rollback of an uncommitted transaction when its *)
(* connection is closed).                                                  *)
(*                                                                         *)
(* Numbers.  A JSON number is written as an integer: an id as itself, a   *)
(* quantity, price, discount or total as its count of thousandths (1.005   *)
(* is 1005).  The arithmetic of calcTotals is carried out on the doubles   *)
(* these literals parse to, with the IEEE-754 rounding of each operation.  *)
(*                                                                         *)
(* Not modelled: order_date, comment_text, rating (passed through without  *)
(* any decision depending on them), and the other routes of the file.      *)
(***************************************************************************)
EXTENDS Integers, Sequences, FiniteSets, TLC

VARIABLES
    pc,         \* pc[r]: where request r's handler stands
    body,       \* body[r]: the parsed JSON body of request r
    totals,     \* totals[r]: totalAmount / totalDiscount resolved at lines 141-149
    conn,       \* conn[r]: "none" | "open" | "closed", the connection of withConn
    txn,        \* txn[r]: rows written on r's connection and not yet committed
    result,     \* result[r]: how fn(conn) ended: "none" | "conflict" | "ok" | "throw"
    resp,       \* resp[r]: the responses sent on res, in order
    log,        \* log[r]: the storage calls r issued, in order, with their outcome
    binds,      \* binds[r]: the binds array built at lines 185-195
    db,         \* the committed rows of ORDERS and ORD_DTL
    prior,      \* prior[r]: the requests that had already finished when r arrived
    keyAtStart  \* keyAtStart[r]: the committed rows of r's order key when r arrived

vars == <<pc, body, totals, conn, txn, result, resp, log, binds, db, prior, keyAtStart>>

(***************************************************************************)
(* Bounds                                                                  *)
(***************************************************************************)
NReq == 2
MaxLines == 2

Req == 1..NReq

(***************************************************************************)
(* JSON scalars and the JavaScript coercions the handler applies to them   *)
(***************************************************************************)
Null == [t |-> "null", v |-> 0]
Num(n) == [t |-> "num", v |-> n]
\* Str(n): the JSON string holding the decimal digits of n, e.g. "0" or "15"
Str(n) == [t |-> "str", v |-> n]

\* x == null  (true of null and of an absent property)
IsNull(x) == x.t = "null"

\* !x is false: a number other than 0, or a non-empty string
Truthy(x) ==
    CASE x.t = "num" -> x.v # 0
      [] x.t = "str" -> TRUE
      [] OTHER -> FALSE

\* Number(x) on a number, a numeric string, or null
Number(x) ==
    CASE x.t = "num" -> x.v
      [] x.t = "str" -> x.v
      [] OTHER -> 0

\* x ?? d
Coalesce(x, d) == IF IsNull(x) THEN d ELSE x

(***************************************************************************)
(* Bodies                                                                  *)
(***************************************************************************)
\* an element of lines[]: a JSON object (obj), or the JSON value null
Line(prd, qty, unit, disc, shp, seq) ==
    [obj |-> TRUE, prd_id |-> prd, qty |-> qty, unit_price |-> unit,
     discount |-> disc, shp_stat_id |-> shp, seq |-> seq]

NullLine ==
    [obj |-> FALSE, prd_id |-> Null, qty |-> Null, unit_price |-> Null,
     discount |-> Null, shp_stat_id |-> Null, seq |-> Null]

Body(ord, usr, pay, ta, td, isArr, ls) ==
    [ord_id |-> ord, usr_id |-> usr, pay_stat_id |-> pay,
     total_amount |-> ta, total_discount |-> td, isArray |-> isArr, lines |-> ls]

NoBody == Body(Null, Null, Null, Null, Null, FALSE, <<>>)

SeqsUpTo(S, lo, hi) == UNION {[1..n -> S] : n \in lo..hi}

(***************************************************************************)
(* IEEE-754 binary64, the representation of every JavaScript number.       *)
(* A natural number of any size is a sequence of limbs, least significant  *)
(* first, in base 2^15 and without leading zero limbs; a double is         *)
(* [m |-> natural, e |-> integer], the value m * 2^e, with m below 2^53    *)
(* after every operation.  Only non-negative finite values in the normal   *)
(* range are modelled.                                                     *)
(***************************************************************************)
Base == 2^15

RECURSIVE BitLenInt(_)
BitLenInt(n) == IF n = 0 THEN 0 ELSE 1 + BitLenInt(n \div 2)

\* the bits of a limb
LimbBits == BitLenInt(Base - 1)

RECURSIVE BigOfInt(_)
BigOfInt(n) == IF n = 0 THEN <<>> ELSE <<n % Base>> \o BigOfInt(n \div Base)

RECURSIVE IntOfBig(_)
IntOfBig(a) == IF a = <<>> THEN 0 ELSE Head(a) + Base * IntOfBig(Tail(a))

RECURSIVE Trim(_)
Trim(a) ==
    IF a = <<>> THEN a
    ELSE IF a[Len(a)] = 0 THEN Trim(SubSeq(a, 1, Len(a) - 1)) ELSE a

Zeros(n) == [i \in 1..n |-> 0]

RECURSIVE BigAddC(_, _, _)
BigAddC(a, b, c) ==
    IF a = <<>> /\ b = <<>> THEN BigOfInt(c)
    ELSE LET x == (IF a = <<>> THEN 0 ELSE Head(a))
                  + (IF b = <<>> THEN 0 ELSE Head(b)) + c
         IN <<x % Base>> \o BigAddC(IF a = <<>> THEN a ELSE Tail(a),
                                    IF b = <<>> THEN b ELSE Tail(b), x \div Base)

BigAdd(a, b) == BigAddC(a, b, 0)

\* a * k + c for 0 <= k <= Base
RECURSIVE BigMulSmall(_, _, _)
BigMulSmall(a, k, c) ==
    IF a = <<>> THEN BigOfInt(c)
    ELSE LET x == Head(a) * k + c
         IN <<x % Base>> \o BigMulSmall(Tail(a), k, x \div Base)

RECURSIVE BigMulRaw(_, _)
BigMulRaw(a, b) ==
    IF b = <<>> THEN <<>>
    ELSE BigAdd(BigMulSmall(a, Head(b), 0), <<0>> \o BigMulRaw(a, Tail(b)))

BigMul(a, b) == Trim(BigMulRaw(a, b))

\* long division of a by 0 < k <= Base, from the most significant limb:
\* [q |-> a \div k, r |-> a % k]
RECURSIVE BigDivSmallFrom(_, _, _, _, _)
BigDivSmallFrom(a, k, i, r, q) ==
    IF i = 0 THEN [q |-> Trim(q), r |-> r]
    ELSE LET cur == r * Base + a[i]
         IN BigDivSmallFrom(a, k, i - 1, cur % k, <<cur \div k>> \o q)

BigDivSmall(a, k) == BigDivSmallFrom(a, k, Len(a), 0, <<>>)


BitLen(a) ==
    IF a = <<>> THEN 0 ELSE LimbBits * (Len(a) - 1) + BitLenInt(a[Len(a)])

\* bit i of a (bit 0 is the least significant)
Bit(a, i) ==
    IF i \div LimbBits + 1 > Len(a) THEN 0
    ELSE (a[i \div LimbBits + 1] \div 2^(i % LimbBits)) % 2

\* a % 2^n # 0
LowNonzero(a, n) ==
    \/ \E j \in 1..(n \div LimbBits) : j <= Len(a) /\ a[j] # 0
    \/ /\ n \div LimbBits + 1 <= Len(a)
       /\ a[n \div LimbBits + 1] % 2^(n % LimbBits) # 0

\* a \div 2^s
ShiftRight(a, s) ==
    IF s \div LimbBits >= Len(a) THEN <<>>
    ELSE BigDivSmall(SubSeq(a, s \div LimbBits + 1, Len(a)), 2^(s % LimbBits)).q

\* a * 2^s
ShiftLeft(a, s) ==
    IF a = <<>> THEN a
    ELSE Zeros(s \div LimbBits) \o BigMulSmall(a, 2^(s % LimbBits), 0)

Double(m, e) == [m |-> m, e |-> e]

DZero == Double(<<>>, 0)

\* The double nearest to m * 2^e (plus a positive fraction of 2^e when
\* sticky), ties to even: the rounding of every IEEE operation.  A sticky
\* value is only passed with m of more than 53 bits.
RoundD(m, e, sticky) ==
    IF BitLen(m) <= 53 THEN Double(m, e)
    ELSE LET s == BitLen(m) - 53
             q == ShiftRight(m, s)
             up == /\ Bit(m, s - 1) = 1
                   /\ LowNonzero(m, s - 1) \/ sticky \/ Bit(q, 0) = 1
         IN Double(IF up THEN BigAdd(q, <<1>>) ELSE q, e + s)

\* JSON.parse / Number of the decimal literal d/1000: the nearest double
ParseMilli(d) ==
    IF d = 0 THEN DZero
    ELSE LET dv == BigDivSmall(Zeros(5) \o BigOfInt(d), 1000)
         IN RoundD(dv.q, -(5 * LimbBits), dv.r # 0)

\* x * y
MulD(x, y) == RoundD(BigMul(x.m, y.m), x.e + y.e, FALSE)

\* x + y
AddD(x, y) ==
    IF x.m = <<>> THEN y
    ELSE IF y.m = <<>> THEN x
    ELSE LET e == IF x.e <= y.e THEN x.e ELSE y.e
         IN RoundD(BigAdd(ShiftLeft(x.m, x.e - e), ShiftLeft(y.m, y.e - e)), e, FALSE)

\* x * 100
Times100(x) == RoundD(Trim(BigMulSmall(x.m, 100, 0)), x.e, FALSE)

\* Math.round(x): floor(x + 1/2), exactly
MathRound(x) ==
    IF x.e >= 0 THEN IntOfBig(ShiftLeft(x.m, x.e))
    ELSE IntOfBig(ShiftRight(x.m, -x.e)) + Bit(x.m, -x.e - 1)

\* Math.round(x * 100) / 100: the division by 100 yields the double nearest
\* to n/100, the number that prints as n hundredths; returned in thousandths
Round2(x) == MathRound(Times100(x)) * 10

(***************************************************************************)
(* calcTotals (lines 55-69)                                                *)
(***************************************************************************)
\* Number(v ?? 0) as a double
NumberOr0(v) == ParseMilli(Number(Coalesce(v, Num(0))))

\* the loop of lines 58-64, from the accumulators acc
RECURSIVE SumAmount(_, _)
SumAmount(ls, acc) ==
    IF ls = <<>> THEN acc
    ELSE SumAmount(Tail(ls),
            AddD(acc, MulD(NumberOr0(Head(ls).qty), NumberOr0(Head(ls).unit_price))))

RECURSIVE SumDiscount(_, _)
SumDiscount(ls, acc) ==
    IF ls = <<>> THEN acc
    ELSE SumDiscount(Tail(ls), AddD(acc, NumberOr0(Head(ls).discount)))

calcTotals(ls) ==
    [totalAmount |-> Round2(SumAmount(ls, DZero)),
     totalDiscount |-> Round2(SumDiscount(ls, DZero))]

(***************************************************************************)
(* Validation (lines 118-139)                                              *)
(***************************************************************************)
\* the condition of the first if (lines 118-124)
HeaderInvalid(b) ==
    \/ IsNull(b.ord_id)
    \/ IsNull(b.usr_id)
    \/ IsNull(b.pay_stat_id)
    \/ ~b.isArray
    \/ Len(b.lines) = 0

\* the condition of the per-line if (line 133), for an element that is an object
LineInvalid(l) ==
    \/ ~Truthy(l.prd_id)
    \/ IsNull(l.qty)
    \/ IsNull(l.unit_price)
    \/ ~Truthy(l.shp_stat_id)

\* The for loop of lines 131-139 stops at the first element that is rejected
\* or on which reading l.prd_id throws (null has no properties): 0 when the
\* loop runs to its end, else the 1-based position of that element.
LoopStop(ls) ==
    LET stops == {i \in 1..Len(ls) : ~ls[i].obj \/ LineInvalid(ls[i])}
    IN IF stops = {} THEN 0
       ELSE CHOOSE i \in stops : \A j \in stops : i <= j

(***************************************************************************)
(* Totals resolution (lines 141-149)                                       *)
(***************************************************************************)
ResolveTotals(b) ==
    LET computed == calcTotals(b.lines)
    IN [totalAmount |-> IF ~IsNull(b.total_amount) THEN Number(b.total_amount)
                        ELSE computed.totalAmount,
        totalDiscount |-> IF ~IsNull(b.total_discount) THEN Number(b.total_discount)
                          ELSE computed.totalDiscount]

NoTotals == [totalAmount |-> 0, totalDiscount |-> 0]

(***************************************************************************)
(* Responses                                                               *)
(***************************************************************************)
Err(kind, arg) == [kind |-> kind, arg |-> arg]

Response(status, ok, error, ord, ta, td) ==
    [status |-> status, ok |-> ok, error |-> error,
     ord_id |-> ord, total_amount |-> ta, total_discount |-> td]

\* lines 125-128
BadRequestRequired == Response(400, FALSE, Err("required", 0), 0, 0, 0)
\* lines 134-137; i is the 0-based index the message names
BadRequestLine(i) == Response(400, FALSE, Err("line", i), 0, 0, 0)
\* lines 204-206
Conflict(b) == Response(409, FALSE, Err("exists", Number(b.ord_id)), 0, 0, 0)
\* lines 209-214
Success(b, t) ==
    Response(200, TRUE, Err("none", 0), Number(b.ord_id), t.totalAmount, t.totalDiscount)
\* line 216
Failure == Response(500, FALSE, Err("message", 0), 0, 0, 0)

(***************************************************************************)
(* Rows and binds                                                          *)
(***************************************************************************)
NoRows == [orders |-> {}, lines |-> {}]

\* the bind object of the header insert (lines 165-172); `by` records the
\* request that wrote the row
OrderRow(r, b, t) ==
    [ord_id |-> Number(b.ord_id), total_amount |-> t.totalAmount,
     total_discount |-> t.totalDiscount, usr_id |-> Number(b.usr_id),
     pay_stat_id |-> Number(b.pay_stat_id), by |-> r]

\* line 187: seq: l.seq == null ? null : Number(l.seq)
BindSeqDropped(l) == Null

BindSeq(l) == IF IsNull(l.seq) THEN Null ELSE Num(Number(l.seq))

\* one element of binds (lines 185-195)
LineBind(b, l) ==
    [ord_id |-> Number(b.ord_id), seq |-> BindSeq(l), qty |-> Number(l.qty),
     unit_price |-> Number(l.unit_price),
     discount |-> IF IsNull(l.discount) THEN 0 ELSE Number(l.discount),
     prd_id |-> Number(l.prd_id), shp_stat_id |-> Number(l.shp_stat_id)]

\* TRG_ORD_DTL_SEQ: a row inserted with SEQ null is numbered from 1 upward
\* within its order, after the rows of that order the transaction can see
TrgOrdDtlSeq(seq, visible) ==
    IF ~IsNull(seq) THEN seq.v
    ELSE IF visible = {} THEN 1
    ELSE (CHOOSE m \in {x.seq : x \in visible} :
             \A y \in visible : y.seq <= m) + 1

\* the ORD_DTL row stored for the idx-th bind
LineRow(r, idx, bind, visible) ==
    [ord_id |-> bind.ord_id, idx |-> idx,
     seq |-> TrgOrdDtlSeq(bind.seq, {x \in visible : x.ord_id = bind.ord_id}),
     qty |-> bind.qty, unit_price |-> bind.unit_price, discount |-> bind.discount,
     prd_id |-> bind.prd_id, shp_stat_id |-> bind.shp_stat_id, by |-> r]

\* ORD_DTL after the first k binds of executeMany ran, one INSERT per bind in
\* array order, each seeing the committed rows and the rows inserted before it
RECURSIVE InsertedLines(_, _, _, _, _)
InsertedLines(r, bs, k, i, acc) ==
    IF i > k THEN acc
    ELSE InsertedLines(r, bs, k, i + 1,
            acc \cup {LineRow(r, i, bs[i], db.lines \cup acc)})

(***************************************************************************)
(* State after construction: no request has arrived, the tables are empty  *)
(***************************************************************************)
Init ==
    /\ pc = [r \in Req |-> "idle"]
    /\ body = [r \in Req |-> NoBody]
    /\ totals = [r \in Req |-> NoTotals]
    /\ conn = [r \in Req |-> "none"]
    /\ txn = [r \in Req |-> NoRows]
    /\ result = [r \in Req |-> "none"]
    /\ resp = [r \in Req |-> <<>>]
    /\ log = [r \in Req |-> <<>>]
    /\ binds = [r \in Req |-> <<>>]
    /\ db = NoRows
    /\ prior = [r \in Req |-> {}]
    /\ keyAtStart = [r \in Req |-> NoRows]

Call(op, out) == [op |-> op, out |-> out]

\* the committed rows of order key id in a snapshot of the tables
RowsOfKey(rows, id) ==
    [orders |-> {o \in rows.orders : o.ord_id = id},
     lines |-> {l \in rows.lines : l.ord_id = id}]

\* the outcomes of a storage call: it returns, or it throws
Outcomes == {"ok", "fault"}

(***************************************************************************)
(* The handler up to its first await (lines 114-152): validation, totals,  *)
(* and the call of withConn.                                               *)
(***************************************************************************)
HandlerEntry(r, b) ==
    /\ pc[r] = "idle"
    /\ body' = [body EXCEPT ![r] = b]
    /\ prior' = [prior EXCEPT ![r] = {q \in Req : pc[q] \in {"done", "escaped"}}]
    /\ keyAtStart' = [keyAtStart EXCEPT ![r] = RowsOfKey(db, Number(b.ord_id))]
    /\ IF HeaderInvalid(b)
       THEN /\ resp' = [resp EXCEPT ![r] = Append(@, BadRequestRequired)]
            /\ pc' = [pc EXCEPT ![r] = "done"]
            /\ UNCHANGED totals
       ELSE IF LoopStop(b.lines) # 0
       THEN IF b.lines[LoopStop(b.lines)].obj
            THEN /\ resp' = [resp EXCEPT ![r] =
                                Append(@, BadRequestLine(LoopStop(b.lines) - 1))]
                 /\ pc' = [pc EXCEPT ![r] = "done"]
                 /\ UNCHANGED totals
            ELSE \* TypeError outside the try block: the async handler rejects
                 /\ pc' = [pc EXCEPT ![r] = "escaped"]
                 /\ UNCHANGED <<resp, totals>>
       ELSE /\ totals' = [totals EXCEPT ![r] = ResolveTotals(b)]
            /\ pc' = [pc EXCEPT ![r] = "getConnection"]
            /\ UNCHANGED resp
    /\ UNCHANGED <<conn, txn, result, log, binds, db>>

(***************************************************************************)
(* withConn (lines 29-45)                                                  *)
(***************************************************************************)
\* lines 32-36: conn = await oracledb.getConnection(...)
GetConnection(r) ==
    /\ pc[r] = "getConnection"
    /\ \E out \in Outcomes :
         /\ log' = [log EXCEPT ![r] = Append(@, Call("getConnection", out))]
         /\ IF out = "ok"
            THEN /\ conn' = [conn EXCEPT ![r] = "open"]
                 /\ pc' = [pc EXCEPT ![r] = "select"]
                 /\ UNCHANGED result
            ELSE /\ result' = [result EXCEPT ![r] = "throw"]
                 /\ pc' = [pc EXCEPT ![r] = "finally"]
                 /\ UNCHANGED conn
    /\ UNCHANGED <<body, totals, txn, resp, binds, db, prior, keyAtStart>>

\* line 39: if (conn)
ShouldCloseUnlessThrown(c, res) == c = "open" /\ res # "throw"

ShouldClose(c, res) == c = "open"

\* lines 38-44: the finally block.  Closing a connection rolls back what it
\* has not committed.  close() returning and close() throwing lead to the
\* same state: the empty catch of line 42 swallows the error.
Finally(r) ==
    /\ pc[r] = "finally"
    /\ IF ShouldClose(conn[r], result[r])
       THEN /\ log' = [log EXCEPT ![r] = Append(@, Call("close", "ok"))]
            /\ conn' = [conn EXCEPT ![r] = "closed"]
            /\ txn' = [txn EXCEPT ![r] = NoRows]
       ELSE UNCHANGED <<log, conn, txn>>
    /\ pc' = [pc EXCEPT ![r] = "respond"]
    /\ UNCHANGED <<body, totals, result, resp, binds, db, prior, keyAtStart>>

(***************************************************************************)
(* The transaction body passed to withConn (lines 152-201)                 *)
(***************************************************************************)
\* SELECT 1 FROM ORDERS WHERE ORD_ID = :id (lines 155-158): under read
\* committed a statement sees the committed rows and its own transaction's
ExistsRows(r, b) ==
    {o \in db.orders \cup txn[r].orders : o.ord_id = Number(b.ord_id)}

\* line 159: exists.rows.length > 0
FoundMoreThanOne(rows) == Cardinality(rows) > 1

Found(rows) == Cardinality(rows) > 0

ExistsCheck(r) ==
    /\ pc[r] = "select"
    /\ \E out \in Outcomes :
         IF out = "fault"
         THEN /\ log' = [log EXCEPT ![r] = Append(@, Call("select", "fault"))]
              /\ result' = [result EXCEPT ![r] = "throw"]
              /\ pc' = [pc EXCEPT ![r] = "finally"]
         ELSE IF Found(ExistsRows(r, body[r]))
         THEN /\ log' = [log EXCEPT ![r] = Append(@, Call("select", "found"))]
              /\ result' = [result EXCEPT ![r] = "conflict"]
              /\ pc' = [pc EXCEPT ![r] = "finally"]
         ELSE /\ log' = [log EXCEPT ![r] = Append(@, Call("select", "ok"))]
              /\ pc' = [pc EXCEPT ![r] = "insertOrder"]
              /\ UNCHANGED result
    /\ UNCHANGED <<body, totals, conn, txn, resp, binds, db, prior, keyAtStart>>

\* line 173: { autoCommit: false }
AutoCommitOrderOn == TRUE

AutoCommitOrder == FALSE

\* line 197: { autoCommit: false }
AutoCommitLines == FALSE

\* where the body goes after the header insert: a rejected await throws out
\* of the body, a fulfilled one continues with the lines
AfterInsertOrderSwallowed(out) == "executeMany"

AfterInsertOrder(out) == IF out = "ok" THEN "executeMany" ELSE "finally"

\* The ORDERS primary key: a committed row with the key raises ORA-00001; a
\* row with the key in another open transaction makes the insert wait until
\* that transaction commits or rolls back.
KeyCommitted(id) == \E o \in db.orders : o.ord_id = id

KeyPending(r, id) ==
    \E q \in Req \ {r} : \E o \in txn[q].orders : o.ord_id = id

\* lines 162-174: INSERT INTO ORDERS
InsertOrder(r) ==
    /\ pc[r] = "insertOrder"
    /\ ~KeyPending(r, Number(body[r].ord_id))
    /\ \E out \in (IF KeyCommitted(Number(body[r].ord_id)) THEN {"dup"} ELSE {"ok"})
                     \cup {"fault"} :
         /\ log' = [log EXCEPT ![r] = Append(@, Call("insertOrder", out))]
         /\ pc' = [pc EXCEPT ![r] = AfterInsertOrder(out)]
         /\ result' = [result EXCEPT ![r] =
                         IF AfterInsertOrder(out) = "finally" THEN "throw" ELSE @]
         /\ IF out = "ok"
            THEN LET rows == [txn[r] EXCEPT
                                !.orders = @ \cup {OrderRow(r, body[r], totals[r])}]
                 IN IF AutoCommitOrder
                    THEN /\ db' = [orders |-> db.orders \cup rows.orders,
                                   lines |-> db.lines \cup rows.lines]
                         /\ txn' = [txn EXCEPT ![r] = NoRows]
                    ELSE /\ txn' = [txn EXCEPT ![r] = rows]
                         /\ UNCHANGED db
            ELSE UNCHANGED <<txn, db>>
    /\ UNCHANGED <<body, totals, conn, resp, binds, prior, keyAtStart>>

\* lines 176-197: conn.executeMany(lineSql, binds).  Without batchErrors the
\* call stops at the first bind the engine rejects: the k binds before it
\* stay inserted in the open transaction and the call throws.
ExecuteMany(r) ==
    /\ pc[r] = "executeMany"
    /\ \E k \in 0..Len(body[r].lines) :
         LET n == Len(body[r].lines)
             bs == [i \in 1..n |-> LineBind(body[r], body[r].lines[i])]
             rows == [txn[r] EXCEPT !.lines = InsertedLines(r, bs, k, 1, @)]
         IN /\ binds' = [binds EXCEPT ![r] = bs]
            /\ log' = [log EXCEPT ![r] =
                         Append(@, Call("executeMany", IF k = n THEN "ok" ELSE "fault"))]
            /\ IF k = n
               THEN /\ pc' = [pc EXCEPT ![r] = "commit"]
                    /\ UNCHANGED result
               ELSE /\ pc' = [pc EXCEPT ![r] = "finally"]
                    /\ result' = [result EXCEPT ![r] = "throw"]
            /\ IF k = n /\ AutoCommitLines
               THEN /\ db' = [orders |-> db.orders \cup rows.orders,
                              lines |-> db.lines \cup rows.lines]
                    /\ txn' = [txn EXCEPT ![r] = NoRows]
               ELSE /\ txn' = [txn EXCEPT ![r] = rows]
                    /\ UNCHANGED db
    /\ UNCHANGED <<body, totals, conn, resp, prior, keyAtStart>>

\* lines 199-200: conn.commit() makes the transaction's rows durable in one
\* step, or throws and leaves them uncommitted
Commit(r) ==
    /\ pc[r] = "commit"
    /\ \E out \in Outcomes :
         /\ log' = [log EXCEPT ![r] = Append(@, Call("commit", out))]
         /\ IF out = "ok"
            THEN /\ db' = [orders |-> db.orders \cup txn[r].orders,
                           lines |-> db.lines \cup txn[r].lines]
                 /\ txn' = [txn EXCEPT ![r] = NoRows]
                 /\ result' = [result EXCEPT ![r] = "ok"]
            ELSE /\ result' = [result EXCEPT ![r] = "throw"]
                 /\ UNCHANGED <<txn, db>>
    /\ pc' = [pc EXCEPT ![r] = "finally"]
    /\ UNCHANGED <<body, totals, conn, resp, binds, prior, keyAtStart>>

\* lines 203-217: the outcome of withConn mapped to the response
Respond(r) ==
    /\ pc[r] = "respond"
    /\ resp' = [resp EXCEPT ![r] =
                  Append(@, CASE result[r] = "conflict" -> Conflict(body[r])
                              [] result[r] = "ok" -> Success(body[r], totals[r])
                              [] OTHER -> Failure)]
    /\ pc' = [pc EXCEPT ![r] = "done"]
    /\ UNCHANGED <<body, totals, conn, txn, result, log, binds, db, prior, keyAtStart>>

\* every step of a request after its arrival
Step(r) ==
    \/ GetConnection(r)
    \/ ExistsCheck(r)
    \/ InsertOrder(r)
    \/ ExecuteMany(r)
    \/ Commit(r)
    \/ Finally(r)
    \/ Respond(r)

(***************************************************************************)
(* Spec: concurrent requests.  Each request carries one of the order keys, *)
(* with 1..MaxLines well-formed lines, or is one of the malformed bodies.  *)
(***************************************************************************)
Keys == {1, 2}

GoodLine == Line(Num(5), Num(2000), Num(1500), Null, Num(2), Null)

GoodBody(k, n) == Body(Num(k), Num(10), Num(2), Null, Null, TRUE, [i \in 1..n |-> GoodLine])

\* key 1 is submitted with MaxLines lines, every other key with one line
LinesOfKey(k) == IF k = 1 THEN MaxLines ELSE 1

ConcurrentBodies ==
    {GoodBody(k, LinesOfKey(k)) : k \in Keys}
    \cup {Body(Num(1), Num(10), Num(2), Null, Null, TRUE, <<>>),
          Body(Num(1), Num(10), Num(2), Null, Null, TRUE, <<NullLine>>)}

Next ==
    \/ \E r \in Req, b \in ConcurrentBodies : HandlerEntry(r, b)
    \/ \E r \in Req : Step(r)

Spec == Init /\ [][Next]_vars

(***************************************************************************)
(* SpecVal: one request whose body ranges over present, null and zero      *)
(* values of every validated field, a missing lines property, and lines    *)
(* arrays of 0..MaxLines elements, each an object or the JSON value null.  *)
(***************************************************************************)
HeaderValues == {Null, Num(0)}

IdValues == {Null, Num(0), Num(1)}

AmountValues == {Null, Num(0)}

ValLines ==
    {Line(prd, qty, unit, Null, shp, Null) :
        prd \in IdValues, qty \in AmountValues, unit \in AmountValues, shp \in IdValues}
    \cup {NullLine}

NextVal ==
    \/ \E ord, usr, pay \in HeaderValues, ls \in SeqsUpTo(ValLines, 0, MaxLines) :
           HandlerEntry(1, Body(ord, usr, pay, Null, Null, TRUE, ls))
    \/ \E ord, usr, pay \in HeaderValues :
           HandlerEntry(1, Body(ord, usr, pay, Null, Null, FALSE, <<>>))
    \/ Step(1)

SpecVal == Init /\ [][NextVal]_vars

(***************************************************************************)
(* SpecTot: one well-formed request whose lines carry fractional           *)
(* quantities, prices and discounts (in thousandths), with each of the two *)
(* totals supplied or omitted.                                             *)
(***************************************************************************)
TotLines ==
    {Line(Num(5), qty, unit, disc, Num(2), Null) :
        qty \in {Num(1000), Num(3000)},
        unit \in {Num(5), Num(105), Num(1005)},
        disc \in {Null, Str(15)}}

TotalValues == {Null, Num(0), Str(1234)}

DiscountValues == {Null, Num(0), Num(7)}

NextTot ==
    \/ \E ta \in TotalValues, td \in DiscountValues, ls \in SeqsUpTo(TotLines, 1, MaxLines) :
           HandlerEntry(1, Body(Num(1), Num(10), Num(2), ta, td, TRUE, ls))
    \/ Step(1)

SpecTot == Init /\ [][NextTot]_vars

(***************************************************************************)
(* SpecSeq: one well-formed request whose lines carry an explicit seq (a   *)
(* number or a numeric string) or none.                                    *)
(***************************************************************************)
SeqLines ==
    {Line(Num(5), Num(2000), Num(1500), Null, Num(2), seq) :
        seq \in {Null, Num(1), Num(2), Str(2)}}

NextSeq ==
    \/ \E ls \in SeqsUpTo(SeqLines, 1, MaxLines) :
           HandlerEntry(1, Body(Num(1), Num(10), Num(2), Null, Null, TRUE, ls))
    \/ Step(1)

SpecSeq == Init /\ [][NextSeq]_vars

(***************************************************************************)
(* Vocabulary of the properties                                            *)
(***************************************************************************)
Finished(r) == pc[r] \in {"done", "escaped"}

HasCall(r, op, out) == \E i \in 1..Len(log[r]) : log[r][i] = Call(op, out)

Issued(r, op) == \E i \in 1..Len(log[r]) : log[r][i].op = op

\* a storage call of r failed for a reason other than a duplicate key
Faulted(r) == \E i \in 1..Len(log[r]) : log[r][i].out = "fault"

\* the committed rows request r wrote
OrdersBy(r) == {o \in db.orders : o.by = r}

LinesBy(r) == {l \in db.lines : l.by = r}

\* the body passes both validation steps as the specification words them
WellFormed(b) ==
    /\ ~IsNull(b.ord_id) /\ ~IsNull(b.usr_id) /\ ~IsNull(b.pay_stat_id)
    /\ b.isArray /\ Len(b.lines) > 0
    /\ \A i \in 1..Len(b.lines) :
         /\ b.lines[i].obj
         /\ ~IsNull(b.lines[i].prd_id) /\ ~IsNull(b.lines[i].qty)
         /\ ~IsNull(b.lines[i].unit_price) /\ ~IsNull(b.lines[i].shp_stat_id)

\* the storage calls of r other than acquiring and releasing the connection
Queries(r) == SelectSeq(log[r], LAMBDA c : c.op \notin {"getConnection", "close"})

Protocol == <<"select", "insertOrder", "executeMany", "commit">>

(***************************************************************************)
(* C1.  POST /orders/raw is all-or-nothing: in every committed state each  *)
(* submission has either its header row and all N of its line rows         *)
(* persisted, or none of its rows; and once a request whose header insert, *)
(* executeMany or commit failed has finished, none of its rows is          *)
(* persisted and none is left in an open transaction.                      *)
(***************************************************************************)
C1_AllOrNothing ==
    \A r \in Req :
       /\ \/ OrdersBy(r) = {} /\ LinesBy(r) = {}
          \/ /\ OrdersBy(r) = {OrderRow(r, body[r], totals[r])}
             /\ {l.idx : l \in LinesBy(r)} = 1..Len(body[r].lines)
             /\ Cardinality(LinesBy(r)) = Len(body[r].lines)
       /\ (pc[r] = "done" /\ \E op \in {"insertOrder", "executeMany", "commit"} :
                                 Issued(r, op) /\ ~HasCall(r, op, "ok"))
            => OrdersBy(r) = {} /\ LinesBy(r) = {} /\ txn[r] = NoRows

\* a request whose executeMany failed after its header insert has finished,
\* and another request has committed an order with all its lines
C1_Witness ==
    \E r, q \in Req :
       /\ pc[r] = "done" /\ HasCall(r, "insertOrder", "ok")
       /\ HasCall(r, "executeMany", "fault")
       /\ pc[q] = "done" /\ OrdersBy(q) # {}
       /\ Cardinality(LinesBy(q)) = MaxLines

(***************************************************************************)
(* C2.  A submission whose key turns out to be a duplicate, whether the    *)
(* existence pre-check finds the key or the ORDERS primary key rejects the *)
(* header insert, is answered 409 with the key, never 500.                 *)
(***************************************************************************)
C2_DuplicateIsConflict ==
    \A r \in Req :
       (pc[r] = "done" /\ (HasCall(r, "select", "found")
                            \/ HasCall(r, "insertOrder", "dup")))
         => resp[r] = <<Conflict(body[r])>>

(***************************************************************************)
(* C3.  Two well-formed submissions with the same key, processed one after *)
(* the other without a storage fault: the first (its key not stored when   *)
(* it arrives, no other request with that key overlapping it) is answered  *)
(* with success; the second, arriving after that response, is answered 409 *)
(* with the key, issues no insert and no commit, and leaves the rows of    *)
(* that key as they were when it arrived.                                  *)
(***************************************************************************)
SameKey(r, q) == Number(body[r].ord_id) = Number(body[q].ord_id)

\* every other request with r's key ran entirely before or entirely after r
Alone(r) ==
    \A q \in Req \ {r} :
       (pc[q] # "idle" /\ WellFormed(body[q]) /\ SameKey(r, q))
         => q \in prior[r] \/ r \in prior[q]

C3_SequentialDuplicate ==
    \A r \in Req :
       (pc[r] = "done" /\ WellFormed(body[r]) /\ ~Faulted(r)) =>
          /\ (Alone(r) /\ keyAtStart[r] = NoRows)
               => resp[r] = <<Success(body[r], totals[r])>>
          /\ \A q \in prior[r] :
               (WellFormed(body[q]) /\ SameKey(r, q)
                  /\ resp[q] = <<Success(body[q], totals[q])>>)
                 => /\ resp[r] = <<Conflict(body[r])>>
                    /\ Queries(r) = <<Call("select", "found")>>
                    /\ RowsOfKey(db, Number(body[r].ord_id))
                         = keyAtStart[r]

\* the second of two same-key requests has been answered after the first
\* one's success
C3_Witness ==
    \E r, q \in Req :
       /\ r # q /\ pc[r] = "done" /\ q \in prior[r]
       /\ WellFormed(body[r]) /\ WellFormed(body[q]) /\ SameKey(r, q)
       /\ resp[q] = <<Success(body[q], totals[q])>>
       /\ resp[r] = <<Conflict(body[r])>>

(***************************************************************************)
(* C4.  withConn is a scoped resource: every query of a request runs after *)
(* its connection was acquired and while it is open; an acquired           *)
(* connection is closed exactly once on every exit path, before the        *)
(* response is sent; a request that never acquired one closes nothing; no  *)
(* finished request holds an open connection.                              *)
(***************************************************************************)
Closes(r) == Len(SelectSeq(log[r], LAMBDA c : c.op = "close"))

C4_ScopedConnection ==
    \A r \in Req :
       /\ pc[r] \in {"select", "insertOrder", "executeMany", "commit"}
            => conn[r] = "open"
       /\ Queries(r) # <<>>
            => /\ log[r][1] = Call("getConnection", "ok")
               /\ \A i \in 1..Len(log[r]) :
                    log[r][i].op = "close" => i = Len(log[r])
       /\ Closes(r) <= 1
       /\ (pc[r] \in {"respond", "done"} \/ resp[r] # <<>>)
            => /\ conn[r] # "open"
               /\ Closes(r) = IF HasCall(r, "getConnection", "ok") THEN 1 ELSE 0

\* a request whose query threw has been answered, its connection closed
C4_Witness ==
    \E r \in Req :
       /\ pc[r] = "done" /\ HasCall(r, "insertOrder", "fault")
       /\ conn[r] = "closed" /\ Closes(r) = 1

(***************************************************************************)
(* C9.  Within one request the storage calls are issued in the order       *)
(* existence check, header insert, bulk line insert, commit, each at most  *)
(* once; a call is issued only after every earlier one returned without    *)
(* finding the key or failing; and rows become committed only by the       *)
(* commit call, never by an insert.                                        *)
(***************************************************************************)
C9_ProtocolOrder ==
    \A r \in Req :
       /\ Len(Queries(r)) <= Len(Protocol)
       /\ \A i \in 1..Len(Queries(r)) :
            /\ Queries(r)[i].op = Protocol[i]
            /\ i < Len(Queries(r)) => Queries(r)[i].out = "ok"
       /\ (OrdersBy(r) # {} \/ LinesBy(r) # {}) => HasCall(r, "commit", "ok")
       /\ pc[r] \in {"insertOrder", "executeMany", "commit"}
            => OrdersBy(r) = {} /\ LinesBy(r) = {}

\* one request ran the whole protocol, another stopped at a failed insert
C9_Witness ==
    \E r, q \in Req :
       /\ Len(Queries(r)) = Len(Protocol) /\ HasCall(r, "commit", "ok")
       /\ pc[q] = "done" /\ Len(Queries(q)) = 2
       /\ ~HasCall(q, "insertOrder", "ok")

(***************************************************************************)
(* C5.  A submission that lacks the order key, the user reference or the   *)
(* payment-status reference, whose lines are missing or empty, or one of   *)
(* whose lines lacks product reference, quantity, unit price or            *)
(* shipment-status reference, is answered 400 and touches no storage: no   *)
(* connection, no query, no row.                                           *)
(***************************************************************************)
IsBadRequest(x) == x.status = 400 /\ ~x.ok /\ x.error.kind \in {"required", "line"}

C5_ValidationIsLocal ==
    \A r \in Req :
       (Finished(r) /\ ~WellFormed(body[r])) =>
          /\ Len(resp[r]) = 1 /\ IsBadRequest(resp[r][1])
          /\ log[r] = <<>> /\ conn[r] = "none" /\ txn[r] = NoRows
          /\ OrdersBy(r) = {} /\ LinesBy(r) = {}

(***************************************************************************)
(* C7.  Every request ends with exactly one response, which is the success *)
(* shape {ok:true, ord_id, total_amount, total_discount} or {ok:false,     *)
(* error} under status 400, 409 or 500; no error escapes the handler.      *)
(***************************************************************************)
IsSuccessShape(x) == x.ok /\ x.status = 200 /\ x.error.kind = "none"

IsFailureShape(x) ==
    ~x.ok /\ x.status \in {400, 409, 500} /\ x.error.kind # "none"

C7_ExactlyOneResponse ==
    \A r \in Req :
       /\ pc[r] # "escaped"
       /\ Len(resp[r]) <= 1
       /\ Finished(r) =>
            /\ Len(resp[r]) = 1
            /\ IsSuccessShape(resp[r][1]) \/ IsFailureShape(resp[r][1])

(***************************************************************************)
(* C10.  Validation rejects only missing fields: a submission with every   *)
(* required field non-null (0 included) is never answered 400; and a 400   *)
(* about a line names the lowest index of a line missing a required field. *)
(***************************************************************************)
LineMissesField(l) ==
    \/ ~l.obj
    \/ IsNull(l.prd_id) \/ IsNull(l.qty)
    \/ IsNull(l.unit_price) \/ IsNull(l.shp_stat_id)

C10_RejectsOnlyMissing ==
    \A r \in Req : \A i \in 1..Len(resp[r]) :
       /\ WellFormed(body[r]) => resp[r][i].status # 400
       /\ resp[r][i].error.kind = "line" =>
            LET k == resp[r][i].error.arg + 1
            IN /\ k \in 1..Len(body[r].lines)
               /\ LineMissesField(body[r].lines[k])
               /\ \A j \in 1..(k - 1) : ~LineMissesField(body[r].lines[j])

(***************************************************************************)
(* C6.  Totals of a successful submission: each of total amount and total  *)
(* discount, independently of the other, is the supplied value (coerced to *)
(* a number) when one is supplied, and otherwise the sum over the lines    *)
(* (quantity x unit price; discount, absent counted as 0) rounded half-up  *)
(* to 2 decimals on the sum; the header row stores the returned values.    *)
(***************************************************************************)
\* exact decimal sums over the lines, in millionths
RECURSIVE ExactAmount(_)
ExactAmount(ls) ==
    IF ls = <<>> THEN 0
    ELSE Number(Head(ls).qty) * Number(Head(ls).unit_price) + ExactAmount(Tail(ls))

RECURSIVE ExactDiscount(_)
ExactDiscount(ls) ==
    IF ls = <<>> THEN 0
    ELSE (IF IsNull(Head(ls).discount) THEN 0 ELSE Number(Head(ls).discount)) * 1000
         + ExactDiscount(Tail(ls))

\* v (thousandths) has 2 decimals and is the half-up rounding of x (millionths):
\* x lies in [v - 0.005, v + 0.005)
IsHalfUp2(v, x) == v % 10 = 0 /\ v * 1000 - 5000 <= x /\ x < v * 1000 + 5000

C6_TotalsPolicy ==
    \A r \in Req : \A i \in 1..Len(resp[r]) :
       resp[r][i].ok =>
          LET b == body[r]
              x == resp[r][i]
          IN /\ IF IsNull(b.total_amount)
                THEN IsHalfUp2(x.total_amount, ExactAmount(b.lines))
                ELSE x.total_amount = b.total_amount.v
             /\ IF IsNull(b.total_discount)
                THEN IsHalfUp2(x.total_discount, ExactDiscount(b.lines))
                ELSE x.total_discount = b.total_discount.v
             /\ \A o \in OrdersBy(r) :
                  /\ o.total_amount = x.total_amount
                  /\ o.total_discount = x.total_discount
             /\ OrdersBy(r) # {}

(***************************************************************************)
(* C8.  Line sequence numbers.  As claimed: a line with an explicit seq is *)
(* inserted with that seq, a line without one with null for the trigger to *)
(* number, and the sequence numbers of every order's persisted lines are   *)
(* pairwise distinct.                                                      *)
(***************************************************************************)
SeqPassedThrough(r) ==
    \A i \in 1..Len(binds[r]) :
       LET l == body[r].lines[i]
       IN /\ IsNull(l.seq) => binds[r][i].seq = Null
          /\ ~IsNull(l.seq) =>
               /\ binds[r][i].seq.t = "num" /\ binds[r][i].seq.v = l.seq.v
               /\ \A x \in txn[r].lines \cup LinesBy(r) :
                    x.idx = i => x.seq = l.seq.v

C8_SeqUniqueAlways ==
    /\ \A r \in Req : SeqPassedThrough(r)
    /\ \A x, y \in db.lines :
         (x.ord_id = y.ord_id /\ x.seq = y.seq) => x = y

(***************************************************************************)
(* C8 as amended: explicit and omitted seq values are passed as above; the *)
(* persisted sequence numbers of an order are pairwise distinct when all   *)
(* its lines omit seq (the trigger numbers them 1..N) or when all carry    *)
(* pairwise distinct explicit values.                                      *)
(***************************************************************************)
AllOmitSeq(b) == \A i \in 1..Len(b.lines) : IsNull(b.lines[i].seq)

AllDistinctSeq(b) ==
    \A i, j \in 1..Len(b.lines) :
       /\ ~IsNull(b.lines[i].seq)
       /\ i # j => Number(b.lines[i].seq) # Number(b.lines[j].seq)

C8_SeqPassThrough ==
    \A r \in Req :
       /\ SeqPassedThrough(r)
       /\ (AllOmitSeq(body[r]) /\ LinesBy(r) # {})
            => {x.seq : x \in LinesBy(r)} = 1..Len(body[r].lines)
       /\ (AllOmitSeq(body[r]) \/ AllDistinctSeq(body[r]))
            => \A x, y \in LinesBy(r) : x.seq = y.seq => x = y

\* an order is persisted whose lines carried distinct explicit seq values,
\* one of them as a numeric string
C8_Witness ==
    \E r \in Req :
       /\ HasCall(r, "commit", "ok") /\ Len(body[r].lines) >= 2
       /\ AllDistinctSeq(body[r])
       /\ \E i \in 1..Len(body[r].lines) : body[r].lines[i].seq.t = "str"
       /\ Cardinality({x.seq : x \in LinesBy(r)}) = Len(body[r].lines)

=============================================================================
